---- MODULE Spec2Model ----
(***************************************************************************)
(* Model of the formidablejs installer: the `new` command (New.run,       *)
(* src/src/commands/new.ts) and the Scaffold class (utils/scaffold,       *)
(* src/unnamed/part_000).                                                  *)
(*                                                                         *)
(* Two logical tasks share the single JavaScript thread:                   *)
(*   - the main task New.run, which suspends only at its awaits (the       *)
(*     prompts and waitForState), and                                      *)
(*   - the continuation of download(...).then(async ...) in Scaffold.make, *)
(*     which suspends only at `await unzipper.Open.file`.                  *)
(* A task runs from one suspension point to the next without the other     *)
(* one running; the stream events of the extracted files need the event    *)
(* loop too, so they fire only while both tasks are suspended.             *)
(*                                                                         *)
(* Text is modelled as sequences of tokens (a token stands for a fixed     *)
(* piece of text), a line as a sequence of tokens and a file as a          *)
(* sequence of lines, so that trim() and startsWith() are computed.        *)
(***************************************************************************)
EXTENDS Naturals, Sequences, FiniteSets, TLC

VARIABLES
    busy,        \* Scaffold.busy
    success,     \* Scaffold.success
    pcMain,      \* position of New.run
    pcCont,      \* position of the download continuation of Scaffold.make
    response,    \* what download() resolved to ("none" while in flight)
    onboarding,  \* New.onboarding
    git,         \* flags.git, once New.run has read it
    appName,     \* Scaffold.appName
    idx,         \* index of the next archive entry of the forEach loop
    dirs,        \* directories that exist under the output directory
    wstatus,     \* per destination file: state of its write stream
    disk,        \* per file of the output directory: its content
    calls,       \* the Scaffold steps invoked so far, in order
    spawned,     \* the child processes spawned so far, in order
    childFailed, \* whether a child process has exited with a non-zero status
    published,   \* the publishables, hooks and modifiers made so far
    messages     \* what the command has logged

vars == <<busy, success, pcMain, pcCont, response, onboarding, git, appName,
          idx, dirs, wstatus, disk, calls, spawned, childFailed, published,
          messages>>

----------------------------------------------------------------------------
(* Bounds *)

\* Longest file (in lines) drawn as an input of the configuration steps.
MaxLines == 2

\* Most write streams that may fail during one extraction.
MaxWriteErrors == 1

----------------------------------------------------------------------------
(* Values *)

null == "null"

Types == {"api", "full-stack"}
Stacks == {"imba", "react", "vue"}
Scaffoldings == {"blank", "spa"}
Drivers == {"mysql", "pg", "sqlite3", "tedious", "oracledb"}
Databases == Drivers \cup {"skip"}
Managers == {"npm", "yarn"}

\* The answers drawn in the runs of the whole command: flags and prompts take
\* their values here.  The steps themselves are checked on all the options.
RunTypes == Types
RunStacks == {"imba", "react"}
RunScaffoldings == {"spa"}
RunDatabases == {"sqlite3", "skip"}
RunManagers == {"npm"}

\* What download() may resolve to: true, false, or something else.
Responses == {"true", "false", "undefined"}

\* Application names: args.name, or the base name of the current directory.
AppNames == { <<"my", " ", "app">> }

\* Whitespace tokens, as String.prototype.trim() knows them.
SP == " "
TAB == "\t"
Whitespace == {SP, TAB}

Absent == << <<"<absent>">> >>

----------------------------------------------------------------------------
(* The template archive served by Scaffold.url: the entries of the zip,   *)
(* in archive order.  Every path starts with the archive's root folder.   *)

Root == "formidablejs-main"

EnvExampleContent ==
    << <<"APP_NAME=Formidable">>,
       <<"CLIENT_URL=http://localhost:8000">>,
       <<"DB_CONNECTION", "=", "sqlite">> >>

SessionContent ==
    << <<TAB, "driver: 'memory'">>,
       <<TAB, "same_site: helpers.env 'SESSION_SAME_SITE', 'none'">> >>

DatabaseContent ==
    << <<TAB, "default: helpers.env 'DB_CONNECTION', 'sqlite'">>,
       <<TAB, "useNullAsDefault: null">> >>

PackageContent == << <<"name: ", "formidablejs">> >>

LockContent == << <<"lockfileVersion: 2">> >>

Archive ==
    << [path |-> <<Root>>,                            type |-> "Directory", data |-> <<>>],
       [path |-> <<Root, ".env.example">>,            type |-> "File", data |-> EnvExampleContent],
       [path |-> <<Root, "config">>,                  type |-> "Directory", data |-> <<>>],
       [path |-> <<Root, "config", "database.imba">>, type |-> "File", data |-> DatabaseContent],
       [path |-> <<Root, "config", "package-lock.json">>, type |-> "File", data |-> LockContent],
       [path |-> <<Root, "config", "session.imba">>,  type |-> "File", data |-> SessionContent],
       [path |-> <<Root, "package-lock.json">>,       type |-> "File", data |-> LockContent],
       [path |-> <<Root, "package.json">>,            type |-> "File", data |-> PackageContent] >>

EnvExamplePath == <<".env.example">>
EnvPath == <<".env">>
SessionPath == <<"config", "session.imba">>
DatabasePath == <<"config", "database.imba">>
PackagePath == <<"package.json">>

\* Mutant: the root folder of the archive is not shifted off the path.
EntryPathUnshifted(entry) == entry.path

\* entry.path.split('/'); dir.shift(); join(this.output, dir.join('/'))
EntryPath(entry) == Tail(entry.path)

\* entry.path.split('/').pop()
BaseName(entry) == entry.path[Len(entry.path)]

\* mkdirSync(p, {recursive: true}): p and all its ancestors.
Ancestors(p) == { SubSeq(p, 1, k) : k \in 0..Len(p) }

Parent(p) == SubSeq(p, 1, Len(p) - 1)

----------------------------------------------------------------------------
(* Text primitives *)

\* String.prototype.toLowerCase on the values a stack may take.
ToLowerCase(s) ==
    CASE s = "Imba"  -> "imba"
      [] s = "React" -> "react"
      [] s = "Vue"   -> "vue"
      [] OTHER       -> s

RECURSIVE TrimStart(_)
TrimStart(line) ==
    IF line # <<>> /\ Head(line) \in Whitespace THEN TrimStart(Tail(line)) ELSE line

RECURSIVE TrimEnd(_)
TrimEnd(line) ==
    IF line # <<>> /\ line[Len(line)] \in Whitespace
    THEN TrimEnd(SubSeq(line, 1, Len(line) - 1))
    ELSE line

\* String.prototype.trim
Trim(line) == TrimEnd(TrimStart(line))

\* String.prototype.startsWith, for a prefix that is one token.
StartsWith(line, token) == line # <<>> /\ Head(line) = token

\* appName.replace(new RegExp(' ', 'g'), '-')
ReplaceSpaces(name) == [i \in 1..Len(name) |-> IF name[i] = " " THEN "-" ELSE name[i]]

----------------------------------------------------------------------------
(* Scaffold.getDependencies *)

\* Mutant: the inertia adapter is added in the else-branch of the
\* scaffolding tests, as Scaffold.publish does.
GetDependenciesLikePublish(o) ==
    LET typed == IF o.type = "full-stack" THEN <<"@formidablejs/pretty-errors">> ELSE <<>>
        view == IF o.type = "full-stack" /\ o.stack = "imba" /\ o.scaffolding = "spa"
                THEN <<"@formidablejs/view", "axios">> ELSE <<>>
        inertia == IF o.type = "full-stack" /\ o.scaffolding \notin {"blank", "spa"}
                      /\ o.stack \in {"react", "vue"}
                   THEN <<"@formidablejs/inertia">> ELSE <<>>
        db == IF o.database # null /\ o.database # "skip" THEN <<o.database>> ELSE <<>>
    IN typed \o view \o inertia \o db

GetDependencies(o) ==
    LET d0 == <<>>
        d1 == IF o.type = "full-stack"
              THEN LET a == Append(d0, "@formidablejs/pretty-errors")
                       b == IF o.stack # null /\ ToLowerCase(o.stack) = "imba"
                               /\ o.scaffolding = "spa"
                            THEN Append(Append(a, "@formidablejs/view"), "axios")
                            ELSE a
                       c == IF o.stack # null /\ o.stack \in {"react", "vue"}
                            THEN Append(b, "@formidablejs/inertia")
                            ELSE b
                   IN c
              ELSE d0
        d2 == IF o.database # null /\ o.database # "skip"
              THEN Append(d1, o.database)
              ELSE d1
    IN d2

\* The command line of the package manager spawned by Scaffold.install.
InstallCommand(o) ==
    LET deps == GetDependencies(o)
    IN [cmd  |-> IF o.manager = null THEN "npm" ELSE o.manager,
        args |-> <<IF Len(deps) > 0 /\ o.manager = "yarn" THEN "add" ELSE "install">>
                 \o deps \o <<"--legacy-peer-deps">>]

\* The hooks Scaffold.install runs after the package manager.
InstallHooks(o) ==
    IF o.type = "full-stack" /\ o.stack # null
    THEN (IF ToLowerCase(o.stack) = "react" THEN {"ReactHook"} ELSE {})
         \cup (IF ToLowerCase(o.stack) = "vue" THEN {"VueHook"} ELSE {})
    ELSE {}

----------------------------------------------------------------------------
(* Scaffold.publish and Scaffold.modify: what they make *)

\* Mutant: the three tests of publish are separate ifs, not an else-if chain.
PublishablesSeparateIfs(o) ==
    {"AuthMailPublishable", "MailPublishable"} \cup
    (IF o.type = "full-stack"
     THEN (IF o.scaffolding = "blank" THEN {"WebPublishable"} ELSE {})
          \cup (IF o.scaffolding = "spa" THEN {"SPAPublishable"} ELSE {})
          \cup (IF o.stack # null /\ o.stack \in {"react", "vue"}
                THEN {"WebPublishable", "InertiaPublishable"} ELSE {})
     ELSE {})

Publishables(o) ==
    {"AuthMailPublishable", "MailPublishable"} \cup
    (IF o.type = "full-stack"
     THEN IF o.scaffolding = "blank" THEN {"WebPublishable"}
          ELSE IF o.scaffolding = "spa" THEN {"SPAPublishable"}
          ELSE IF o.stack # null /\ o.stack \in {"react", "vue"}
               THEN {"WebPublishable", "InertiaPublishable"}
               ELSE {}
     ELSE {})

Modifiers(o) ==
    IF o.type = "full-stack"
    THEN {"PrettyErrorsModifier"} \cup
         (IF o.stack \in {"react", "vue"}
          THEN {"InertiaResolverModifier", "InertiaConfigModifier"}
          ELSE {})
    ELSE {}

----------------------------------------------------------------------------
(* The line transforms of the configuration steps *)

ClientUrlLine == <<"CLIENT_URL=http://localhost:8000">>
ClientUrlCommented == <<"#", SP, "CLIENT_URL=http://localhost:8000">>

\* Mutant: a line that contains the literal gets the comment sign in front.
CommentClientUrlPrepended(line) ==
    IF \E k \in 1..Len(line) : line[k] = "CLIENT_URL=http://localhost:8000"
    THEN <<"#", SP>> \o line
    ELSE line

\* Mutant: the line is compared as it is, without trim().
CommentClientUrlUntrimmed(line) ==
    IF line = ClientUrlLine THEN ClientUrlCommented ELSE line

CommentClientUrl(line) ==
    IF Trim(line) = ClientUrlLine THEN ClientUrlCommented ELSE line

SessionDriver(line) ==
    IF Trim(line) = <<"driver: 'memory'">> THEN <<SP, SP, "driver: 'file'">> ELSE line

SessionSameSite(line) ==
    IF Trim(line) = <<"same_site: helpers.env 'SESSION_SAME_SITE', 'none'">>
    THEN <<TAB, "same_site: helpers.env 'SESSION_SAME_SITE', 'lax'">>
    ELSE line

\* Mutant: the driver name is used as the connection name.
ConnectionUnmapped(database) == IF database \in Drivers THEN database ELSE ""

\* The switch of Scaffold.setDatabase; '' when no case matches.
Connection(database) ==
    CASE database = "mysql"    -> "mysql"
      [] database = "pg"       -> "pgsql"
      [] database = "sqlite3"  -> "sqlite"
      [] database = "tedious"  -> "mssql"
      [] database = "oracledb" -> "oracle"
      [] OTHER                 -> ""

DbConnectionLine(connection, line) ==
    IF StartsWith(line, "DB_CONNECTION")
    THEN <<"DB_CONNECTION", "=", connection>>
    ELSE line

UseNullAsDefault(line) ==
    IF Trim(line) = <<"useNullAsDefault: null">>
    THEN <<TAB, "useNullAsDefault: true">>
    ELSE line

\* The callback a step hands to updateLine, applied to one line.
Apply(f, line) ==
    CASE f.name = "commentClientUrl" -> CommentClientUrl(line)
      [] f.name = "sessionDriver"    -> SessionDriver(line)
      [] f.name = "sessionSameSite"  -> SessionSameSite(line)
      [] f.name = "dbConnection"     -> DbConnectionLine(f.connection, line)
      [] f.name = "useNullAsDefault" -> UseNullAsDefault(line)

\* updateLine(path, f) on the content of the file: every line goes through
\* the callback, in order, and the result is written back.
UpdateLine(content, f) == [i \in 1..Len(content) |-> Apply(f, content[i])]

\* The content of .env after Scaffold.setDatabase, from its content before.
SetDatabaseEnv(database, content) ==
    UpdateLine(content, [name |-> "dbConnection", connection |-> Connection(database)])

----------------------------------------------------------------------------
(* Scheduling on the single JavaScript thread *)

\* New.run is suspended at an await (a prompt, or waitForState).
MainSuspended ==
    pcMain \in {"promptType", "promptDatabase", "promptStack",
                "promptScaffolding", "promptManager", "waiting"}

\* New.run has returned; the process lives on while streams are open.  After
\* this.exit(1) ("exited") or an error thrown out of New.run ("threw") the
\* process has ended and nothing runs any more.
MainReturned == pcMain = "done"

\* The continuation is inside its synchronous forEach block.
ContRunning == pcCont \in {"extracting", "enumerated"}

\* The event loop may deliver an event to the continuation or to a stream.
EventLoopFree == (MainSuspended \/ MainReturned) /\ ~ContRunning

\* The event loop may resume New.run.
MainMayResume == MainSuspended /\ ~ContRunning

\* What the steps of New.run leave alone.
contVars == <<busy, success, pcCont, response, idx, dirs, wstatus>>
\* What the continuation and the streams leave alone.
mainVars == <<pcMain, onboarding, git, appName, calls, spawned, childFailed, published>>

----------------------------------------------------------------------------
(* New.run: from the start to the wait on busy *)

\* The next await of the onboarding, from question k on (new.ts 115-149);
\* "check" is line 153.
AskFrom(o, k) ==
    IF k <= 1 /\ o.type = null THEN "promptType"
    ELSE IF k <= 2 /\ o.database = null THEN "promptDatabase"
    ELSE IF k <= 3 /\ o.stack = null /\ o.type = "full-stack" THEN "promptStack"
    ELSE IF k <= 4 /\ o.scaffolding = null /\ o.stack = "imba" /\ o.type = "full-stack"
         THEN "promptScaffolding"
    ELSE IF k <= 5 /\ o.manager = null THEN "promptManager"
    ELSE "check"

\* Mutant: make() starts the download without setting busy.
MakeWithoutBusy ==
    /\ busy' = busy
    /\ pcCont' = "downloading"

\* Scaffold.make, up to the return of download(): busy is set, the download
\* is started and its continuation registered.
Make ==
    /\ busy' = TRUE
    /\ pcCont' = "downloading"

\* New.run from its first line to its first await: the Scaffold is built,
\* make() is called and the flags are copied into the onboarding answers.
Run ==
    /\ pcMain = "start"
    /\ \E name \in AppNames,
          t \in RunTypes \cup {null}, st \in RunStacks \cup {null},
          sc \in RunScaffoldings \cup {null}, db \in RunDatabases \cup {null},
          mg \in RunManagers \cup {null} :
          LET o == [type |-> t, stack |-> st, scaffolding |-> sc,
                    database |-> db, manager |-> mg]
          IN /\ appName' = name
             /\ onboarding' = o
             /\ pcMain' = AskFrom(o, 1)
    /\ Make
    /\ UNCHANGED <<success, response, idx, dirs, wstatus, git, disk, calls,
                   spawned, childFailed, published, messages>>

\* The answer of a prompt arrives and New.run goes on to its next await.
Answer(pc, field, values, k) ==
    /\ pcMain = pc
    /\ MainMayResume
    /\ \E v \in values :
          LET o == [onboarding EXCEPT ![field] = v]
          IN /\ onboarding' = o
             /\ pcMain' = AskFrom(o, k)
    /\ UNCHANGED <<contVars, git, appName, disk, calls, spawned, childFailed,
                   published, messages>>

PromptType == Answer("promptType", "type", RunTypes, 2)
PromptDatabase == Answer("promptDatabase", "database", RunDatabases, 3)
PromptStack == Answer("promptStack", "stack", RunStacks, 4)
PromptScaffolding == Answer("promptScaffolding", "scaffolding", RunScaffoldings, 5)
PromptManager == Answer("promptManager", "manager", RunManagers, 6)

\* Mutant: New.run does not wait for the scaffold.
CheckBusySkipsWait ==
    /\ pcMain = "check"
    /\ pcMain' = "read"
    /\ UNCHANGED <<contVars, onboarding, git, appName, disk, calls, spawned,
                   childFailed, published, messages>>

\* new.ts 153: if (scaffold.isBusy) await waitForState(...)
CheckBusy ==
    /\ pcMain = "check"
    /\ pcMain' = IF busy THEN "waiting" ELSE "read"
    /\ UNCHANGED <<contVars, onboarding, git, appName, disk, calls, spawned,
                   childFailed, published, messages>>

\* waitForState(() => !scaffold.isBusy): one tick of the poll; the caller
\* is resumed when the predicate holds.
Poll ==
    /\ pcMain = "waiting"
    /\ MainMayResume
    /\ pcMain' = IF ~busy THEN "read" ELSE "waiting"
    /\ UNCHANGED <<contVars, onboarding, git, appName, disk, calls, spawned,
                   childFailed, published, messages>>

\* Mutant: the failure is logged but New.run does not exit.
ReadSuccessNoExit ==
    /\ pcMain = "read"
    /\ messages' = IF ~success
                   THEN messages \cup {"Scaffolding failed. It could be your network connection."}
                   ELSE messages
    /\ pcMain' = "install"
    /\ UNCHANGED <<contVars, onboarding, git, appName, disk, calls, spawned,
                   childFailed, published>>

\* new.ts 157-160: the read of scaffold.isSuccessful.
ReadSuccess ==
    /\ pcMain = "read"
    /\ IF ~success
       THEN /\ messages' = messages \cup {"Scaffolding failed. It could be your network connection."}
            /\ pcMain' = "exited"
       ELSE /\ messages' = messages
            /\ pcMain' = "install"
    /\ UNCHANGED <<contVars, onboarding, git, appName, disk, calls, spawned,
                   childFailed, published>>

----------------------------------------------------------------------------
(* Scaffold.make: the continuation of the download *)

\* Mutant: only a response of false is taken as a failure.
DownloadThenLooseCheck ==
    /\ pcCont = "downloading"
    /\ EventLoopFree
    /\ \E r \in Responses :
          /\ response' = r
          /\ busy' = FALSE
          /\ IF r = "false"
             THEN success' = FALSE /\ pcCont' = "finished"
             ELSE success' = success /\ pcCont' = "opening"
    /\ UNCHANGED <<mainVars, idx, dirs, wstatus, disk, messages>>

\* Mutant: the continuation returns on a failed download before it clears busy.
DownloadThenLateBusy ==
    /\ pcCont = "downloading"
    /\ EventLoopFree
    /\ \E r \in Responses :
          /\ response' = r
          /\ IF r # "true"
             THEN busy' = busy /\ success' = FALSE /\ pcCont' = "finished"
             ELSE busy' = FALSE /\ success' = success /\ pcCont' = "opening"
    /\ UNCHANGED <<mainVars, idx, dirs, wstatus, disk, messages>>

\* download() resolves and the continuation runs up to its await.
DownloadThen ==
    /\ pcCont = "downloading"
    /\ EventLoopFree
    /\ \E r \in Responses :
          /\ response' = r
          /\ busy' = FALSE
          /\ IF r # "true"
             THEN success' = FALSE /\ pcCont' = "finished"
             ELSE success' = success /\ pcCont' = "opening"
    /\ UNCHANGED <<mainVars, idx, dirs, wstatus, disk, messages>>

\* unzipper.Open.file resolves: the forEach over the entries begins.
OpenFile ==
    /\ pcCont = "opening"
    /\ EventLoopFree
    /\ pcCont' = "extracting"
    /\ idx' = 1
    /\ UNCHANGED <<mainVars, busy, success, response, dirs, wstatus, disk, messages>>

\* Mutant: the lock file is recognised by its whole path below the root
\* folder, not by its base name.
ExtractEntryLockAtRootOnly ==
    /\ pcCont = "extracting"
    /\ idx <= Len(Archive)
    /\ LET entry == Archive[idx]
           entryPath == EntryPath(entry)
       IN IF entry.type = "Directory"
          THEN /\ dirs' = dirs \cup Ancestors(entryPath)
               /\ wstatus' = wstatus
          ELSE /\ dirs' = dirs
               /\ wstatus' = IF entryPath # <<"package-lock.json">>
                             THEN [wstatus EXCEPT ![entryPath] = "inflight"]
                             ELSE wstatus
    /\ idx' = idx + 1
    /\ pcCont' = IF idx = Len(Archive) THEN "enumerated" ELSE "extracting"
    /\ UNCHANGED <<mainVars, busy, success, response, disk, messages>>

\* One iteration of the forEach: a directory is created, a file gets its
\* write stream (unless it is package-lock.json).
ExtractEntry ==
    /\ pcCont = "extracting"
    /\ idx <= Len(Archive)
    /\ LET entry == Archive[idx]
           entryPath == EntryPath(entry)
       IN IF entry.type = "Directory"
          THEN /\ dirs' = dirs \cup Ancestors(entryPath)
               /\ wstatus' = wstatus
          ELSE /\ dirs' = dirs
               /\ wstatus' = IF BaseName(entry) # "package-lock.json"
                             THEN [wstatus EXCEPT ![entryPath] = "inflight"]
                             ELSE wstatus
    /\ idx' = idx + 1
    /\ pcCont' = IF idx = Len(Archive) THEN "enumerated" ELSE "extracting"
    /\ UNCHANGED <<mainVars, busy, success, response, disk, messages>>

\* part_000 117: this.success = true, right after the forEach.
SetSuccess ==
    /\ pcCont = "enumerated"
    /\ success' = TRUE
    /\ pcCont' = "finished"
    /\ UNCHANGED <<mainVars, busy, response, idx, dirs, wstatus, disk, messages>>

\* The archive's bytes of the entry extracted to p.
DataOf(p) ==
    LET i == CHOOSE j \in 1..Len(Archive) : EntryPath(Archive[j]) = p
    IN Archive[i].data

\* A write stream drains: the file is complete on disk.
WriteFinish ==
    /\ EventLoopFree
    /\ \E p \in DOMAIN wstatus :
          /\ wstatus[p] = "inflight"
          /\ Parent(p) \in dirs
          /\ wstatus' = [wstatus EXCEPT ![p] = "done"]
          /\ disk' = [disk EXCEPT ![p] = DataOf(p)]
    /\ UNCHANGED <<mainVars, busy, success, pcCont, response, idx, dirs, messages>>

\* A write stream emits 'error': the handler reports it (this.command.error)
\* and evaluates this.command.exit without calling it.
WriteError ==
    /\ EventLoopFree
    /\ Cardinality({q \in DOMAIN wstatus : wstatus[q] = "error"}) < MaxWriteErrors
    /\ \E p \in DOMAIN wstatus :
          /\ wstatus[p] = "inflight"
          /\ wstatus' = [wstatus EXCEPT ![p] = "error"]
    /\ messages' = messages \cup {"Could not create Formidablejs application"}
    /\ UNCHANGED <<mainVars, busy, success, pcCont, response, idx, dirs, disk>>

----------------------------------------------------------------------------
(* The post-processing steps of Scaffold, called in a row by New.run       *)
(* (new.ts 162-176).  They are synchronous: nothing else runs meanwhile.  *)

\* Exit statuses of a child process; spawnSync returns them, nobody reads them.
ChildStatuses == {0, 1}

\* spawnSync(cmd, args, ...): the child runs to its end; its status is dropped.
SpawnSync(cmd, args) ==
    /\ spawned' = Append(spawned, [cmd |-> cmd, args |-> args])
    /\ \E status \in ChildStatuses : childFailed' = (childFailed \/ status # 0)

\* What a synchronous read of p can find: the file as the pipeline or a
\* finished stream left it, and, while its stream has not finished, no
\* file yet or any prefix of the entry's bytes.
View(p) ==
    IF disk[p] # Absent THEN {disk[p]}
    ELSE IF p \in DOMAIN wstatus /\ wstatus[p] \in {"inflight", "error"}
         THEN {Absent} \cup { SubSeq(DataOf(p), 1, k) : k \in 0..Len(DataOf(p)) }
         ELSE {Absent}

\* Scaffold.install, with createEnv and getDependencies.
Install ==
    /\ pcMain = "install"
    /\ calls' = Append(calls, "install")
    /\ \E env \in View(EnvExamplePath) :
          IF env = Absent
          THEN \* copyFileSync throws: no .env.example yet
               /\ pcMain' = "threw"
               /\ UNCHANGED <<disk, spawned, childFailed, published>>
          ELSE /\ disk' = [disk EXCEPT ![EnvPath] = env]
               /\ LET c == InstallCommand(onboarding) IN SpawnSync(c.cmd, c.args)
               /\ published' = published \cup InstallHooks(onboarding)
               /\ pcMain' = "publish"
    /\ UNCHANGED <<contVars, onboarding, git, appName, messages>>

\* Mutant: the chain of New.run goes from publish to generateKey.
PublishThenGenerateKey ==
    /\ pcMain = "publish"
    /\ calls' = Append(calls, "publish")
    /\ published' = published \cup Publishables(onboarding)
    /\ pcMain' = "generateKey"
    /\ UNCHANGED <<contVars, onboarding, git, appName, disk, spawned, childFailed, messages>>

\* Scaffold.publish
Publish ==
    /\ pcMain = "publish"
    /\ calls' = Append(calls, "publish")
    /\ published' = published \cup Publishables(onboarding)
    /\ pcMain' = "modify"
    /\ UNCHANGED <<contVars, onboarding, git, appName, disk, spawned, childFailed, messages>>

\* Scaffold.modify
Modify ==
    /\ pcMain = "modify"
    /\ calls' = Append(calls, "modify")
    /\ published' = published \cup Modifiers(onboarding)
    /\ pcMain' = "generateKey"
    /\ UNCHANGED <<contVars, onboarding, git, appName, disk, spawned, childFailed, messages>>

\* Mutant: the status of craftsman key is inspected and a failure is thrown.
GenerateKeyChecksStatus ==
    /\ pcMain = "generateKey"
    /\ calls' = Append(calls, "generateKey")
    /\ spawned' = Append(spawned, [cmd |-> "./node_modules/.bin/craftsman", args |-> <<"key">>])
    /\ \E status \in ChildStatuses :
          /\ childFailed' = (childFailed \/ status # 0)
          /\ pcMain' = IF status # 0 THEN "threw" ELSE "setPackageName"
    /\ UNCHANGED <<contVars, onboarding, git, appName, disk, published, messages>>

\* Scaffold.generateKey
GenerateKey ==
    /\ pcMain = "generateKey"
    /\ calls' = Append(calls, "generateKey")
    /\ SpawnSync("./node_modules/.bin/craftsman", <<"key">>)
    /\ pcMain' = "setPackageName"
    /\ UNCHANGED <<contVars, onboarding, git, appName, disk, published, messages>>

\* Scaffold.setPackageName: JSON.parse throws on a missing or cut manifest.
SetPackageName ==
    /\ pcMain = "setPackageName"
    /\ calls' = Append(calls, "setPackageName")
    /\ \E manifest \in View(PackagePath) :
          IF manifest = Absent \/ Len(manifest) < Len(PackageContent)
          THEN /\ pcMain' = "threw"
               /\ disk' = disk
          ELSE /\ disk' = [disk EXCEPT ![PackagePath] =
                              << <<"name: ">> \o ReplaceSpaces(appName) >>]
               /\ pcMain' = "commentOutClientUrl"
    /\ UNCHANGED <<contVars, onboarding, git, appName, spawned, childFailed,
                   published, messages>>

\* Scaffold.commentOutClientUrl
CommentOutClientUrl ==
    /\ pcMain = "commentOutClientUrl"
    /\ calls' = Append(calls, "commentOutClientUrl")
    /\ IF onboarding.type # "full-stack"
       THEN /\ disk' = disk
            /\ pcMain' = "setSession"
       ELSE \E env \in View(EnvPath) :
               IF env = Absent
               THEN pcMain' = "threw" /\ disk' = disk
               ELSE /\ disk' = [disk EXCEPT ![EnvPath] = UpdateLine(env, [name |-> "commentClientUrl"])]
                    /\ pcMain' = "setSession"
    /\ UNCHANGED <<contVars, onboarding, git, appName, spawned, childFailed,
                   published, messages>>

\* Mutant: setSession without the test of the type.
SetSessionUnguarded ==
    /\ pcMain = "setSession"
    /\ calls' = Append(calls, "setSession")
    /\ \E session \in View(SessionPath) :
          IF session = Absent
          THEN pcMain' = "threw" /\ disk' = disk
          ELSE /\ disk' = [disk EXCEPT ![SessionPath] =
                              UpdateLine(UpdateLine(session, [name |-> "sessionDriver"]),
                                         [name |-> "sessionSameSite"])]
               /\ pcMain' = "setDatabase"
    /\ UNCHANGED <<contVars, onboarding, git, appName, spawned, childFailed,
                   published, messages>>

\* Scaffold.setSession: two updateLine passes over config/session.imba.
SetSession ==
    /\ pcMain = "setSession"
    /\ calls' = Append(calls, "setSession")
    /\ IF onboarding.type # "full-stack"
       THEN /\ disk' = disk
            /\ pcMain' = "setDatabase"
       ELSE \E session \in View(SessionPath) :
               IF session = Absent
               THEN pcMain' = "threw" /\ disk' = disk
               ELSE /\ disk' = [disk EXCEPT ![SessionPath] =
                                   UpdateLine(UpdateLine(session, [name |-> "sessionDriver"]),
                                              [name |-> "sessionSameSite"])]
                    /\ pcMain' = "setDatabase"
    /\ UNCHANGED <<contVars, onboarding, git, appName, spawned, childFailed,
                   published, messages>>

\* Scaffold.setDatabase
SetDatabase ==
    /\ pcMain = "setDatabase"
    /\ calls' = Append(calls, "setDatabase")
    /\ IF onboarding.database = "skip"
       THEN /\ disk' = disk
            /\ pcMain' = "cache"
       ELSE \E env \in View(EnvPath) :
               IF env = Absent
               THEN pcMain' = "threw" /\ disk' = disk
               ELSE LET disk1 == [disk EXCEPT ![EnvPath] =
                                     SetDatabaseEnv(onboarding.database, env)]
                    IN IF Connection(onboarding.database) # "sqlite"
                       THEN disk' = disk1 /\ pcMain' = "cache"
                       ELSE \E db \in View(DatabasePath) :
                               IF db = Absent
                               THEN pcMain' = "threw" /\ disk' = disk1
                               ELSE /\ disk' = [disk1 EXCEPT ![DatabasePath] =
                                                   UpdateLine(db, [name |-> "useNullAsDefault"])]
                                    /\ pcMain' = "cache"
    /\ UNCHANGED <<contVars, onboarding, git, appName, spawned, childFailed,
                   published, messages>>

\* Scaffold.cache, then new.ts 174: if (flags.git)
Cache ==
    /\ pcMain = "cache"
    /\ calls' = Append(calls, "cache")
    /\ SpawnSync("./node_modules/.bin/craftsman", <<"cache", "--debug">>)
    /\ \E g \in BOOLEAN :
          /\ git' = g
          /\ pcMain' = IF g THEN "git" ELSE "ready"
    /\ UNCHANGED <<contVars, onboarding, appName, disk, published, messages>>

\* Scaffold.git
Git ==
    /\ pcMain = "git"
    /\ calls' = Append(calls, "git")
    /\ SpawnSync("git", <<"init">>)
    /\ pcMain' = "ready"
    /\ UNCHANGED <<contVars, onboarding, git, appName, disk, published, messages>>

\* new.ts 178-191: the closing messages; New.run returns.
Ready ==
    /\ pcMain = "ready"
    /\ messages' = messages \cup {"Your application is ready!"}
    /\ pcMain' = "done"
    /\ UNCHANGED <<contVars, onboarding, git, appName, disk, calls, spawned,
                   childFailed, published>>

\* The chain of calls of New.run (new.ts 162-171).
StepOrder ==
    <<"install", "publish", "modify", "generateKey", "setPackageName",
      "commentOutClientUrl", "setSession", "setDatabase", "cache">>

----------------------------------------------------------------------------
(* The program *)

FilePaths == { EntryPath(Archive[i]) : i \in { j \in 1..Len(Archive) : Archive[j].type = "File" } }

NoAnswers == [type |-> null, stack |-> null, scaffolding |-> null,
              database |-> null, manager |-> null]

Init ==
    /\ busy = FALSE
    /\ success = FALSE
    /\ pcMain = "start"
    /\ pcCont = "idle"
    /\ response = "none"
    /\ onboarding = NoAnswers
    /\ git = FALSE
    /\ appName = <<>>
    /\ idx = 0
    /\ dirs = {}
    /\ wstatus = [p \in FilePaths |-> "none"]
    /\ disk = [p \in FilePaths \cup {EnvPath} |-> Absent]
    /\ calls = <<>>
    /\ spawned = <<>>
    /\ childFailed = FALSE
    /\ published = {}
    /\ messages = {}

Next ==
    \/ Run
    \/ PromptType \/ PromptDatabase \/ PromptStack \/ PromptScaffolding \/ PromptManager
    \/ CheckBusy \/ Poll \/ ReadSuccess
    \/ DownloadThen \/ OpenFile \/ ExtractEntry \/ SetSuccess
    \/ WriteFinish \/ WriteError
    \/ Install \/ Publish \/ Modify \/ GenerateKey \/ SetPackageName
    \/ CommentOutClientUrl \/ SetSession \/ SetDatabase \/ Cache \/ Git \/ Ready

Spec == Init /\ [][Next]_vars

\* The event loop delivers what is ready, and a running task runs on; the
\* user is not obliged to answer a prompt.
FairSpec ==
    /\ Spec
    /\ WF_vars(DownloadThen) /\ WF_vars(OpenFile) /\ WF_vars(ExtractEntry)
    /\ WF_vars(SetSuccess) /\ WF_vars(CheckBusy) /\ WF_vars(Poll)
    /\ WF_vars(ReadSuccess)

----------------------------------------------------------------------------
(* The steps on their own: New.run stands before one of the post-processing *)
(* steps, the archive is extracted and every stream has finished; the       *)
(* answers and the files are drawn from bounded sets.                       *)

\* Every record of answers, set or unset.
AllAnswers ==
    [type : Types \cup {null}, stack : Stacks \cup {null},
     scaffolding : Scaffoldings \cup {null}, database : Databases \cup {null},
     manager : Managers \cup {null}]

\* The files of at most MaxLines lines over the given lines.
Files(lines) == UNION { [1..n -> lines] : n \in 0..MaxLines }

EnvLines ==
    { <<"APP_NAME=Formidable">>,
      ClientUrlLine,
      <<SP, "CLIENT_URL=http://localhost:8000">>,
      <<"CLIENT_URL=http://localhost:8000", SP>>,
      ClientUrlCommented,
      <<"DB_CONNECTION", "=", "sqlite">>,
      <<"DB_CONNECTION", "_POOL=5">>,
      <<SP, "DB_CONNECTION", "=", "sqlite">> }

SessionLines ==
    { <<TAB, "driver: 'memory'">>,
      <<"driver: 'memory'">>,
      <<SP, SP, "driver: 'file'">>,
      <<TAB, "driver: 'redis'">>,
      <<TAB, "same_site: helpers.env 'SESSION_SAME_SITE', 'none'">>,
      <<TAB, "same_site: helpers.env 'SESSION_SAME_SITE', 'lax'">> }

DatabaseLines ==
    { <<TAB, "default: helpers.env 'DB_CONNECTION', 'sqlite'">>,
      <<TAB, "useNullAsDefault: null">>,
      <<"useNullAsDefault: null", SP>>,
      <<TAB, "useNullAsDefault: true">> }

\* The state of the scaffold and of the output directory once the archive
\* is extracted and all its streams have finished.
Extracted ==
    /\ busy = FALSE
    /\ success = TRUE
    /\ pcCont = "finished"
    /\ response = "true"
    /\ idx = Len(Archive) + 1
    /\ dirs = UNION { Ancestors(EntryPath(Archive[i])) :
                        i \in { j \in 1..Len(Archive) : Archive[j].type = "Directory" } }
    /\ wstatus = [p \in FilePaths |-> IF p[Len(p)] = "package-lock.json" THEN "none" ELSE "done"]
    /\ git = FALSE
    /\ childFailed = FALSE
    /\ messages = {}
    /\ appName \in AppNames

ExtractedDisk ==
    [p \in FilePaths \cup {EnvPath} |->
        IF p = EnvPath \/ p[Len(p)] = "package-lock.json" THEN Absent ELSE DataOf(p)]

\* New.run stands before install, with any record of answers.
DepsInit ==
    /\ Extracted
    /\ pcMain = "install"
    /\ onboarding \in AllAnswers
    /\ disk = ExtractedDisk
    /\ calls = <<>>
    /\ spawned = <<>>
    /\ published = {}

DepsSpec == DepsInit /\ [][Install]_vars

\* The answers of the runs whose configuration files are drawn.
FilesAnswers ==
    { [type |-> t,
       stack |-> IF t = "full-stack" THEN "imba" ELSE null,
       scaffolding |-> IF t = "full-stack" THEN "spa" ELSE null,
       database |-> d, manager |-> "npm"] : t \in Types, d \in Databases }

\* New.run stands before commentOutClientUrl: the steps before it have run;
\* one of .env, config/session.imba and config/database.imba is drawn.
FilesInit ==
    /\ Extracted
    /\ pcMain = "commentOutClientUrl"
    /\ onboarding \in FilesAnswers
    /\ calls = SubSeq(StepOrder, 1, 5)
    /\ spawned = << InstallCommand(onboarding),
                    [cmd |-> "./node_modules/.bin/craftsman", args |-> <<"key">>] >>
    /\ published = InstallHooks(onboarding) \cup Publishables(onboarding)
                     \cup Modifiers(onboarding)
    /\ \E env \in Files(EnvLines) \cup {EnvExampleContent},
          session \in Files(SessionLines) \cup {SessionContent},
          db \in Files(DatabaseLines) \cup {DatabaseContent} :
          /\ \/ session = SessionContent /\ db = DatabaseContent
             \/ env = EnvExampleContent /\ db = DatabaseContent
             \/ env = EnvExampleContent /\ session = SessionContent
          /\ disk = [ExtractedDisk EXCEPT
                        ![EnvPath] = env,
                        ![SessionPath] = session,
                        ![DatabasePath] = db,
                        ![PackagePath] = << <<"name: ">> \o ReplaceSpaces(appName) >>]

FilesNext == CommentOutClientUrl \/ SetSession \/ SetDatabase

FilesSpec == FilesInit /\ [][FilesNext]_vars

----------------------------------------------------------------------------
(* The command on every combination of flags and answers: the archive is   *)
(* extracted and its streams have finished while New.run is still at its   *)
(* first await (or, with all the flags given, at line 153), so the         *)
(* onboarding and the steps run on the complete template.                  *)

TypeAnswer == Answer("promptType", "type", Types, 2)
DatabaseAnswer == Answer("promptDatabase", "database", Databases, 3)
StackAnswer == Answer("promptStack", "stack", Stacks, 4)
ScaffoldingAnswer == Answer("promptScaffolding", "scaffolding", Scaffoldings, 5)
ManagerAnswer == Answer("promptManager", "manager", Managers, 6)

\* New.run after lines 106-113, with any flags (new.ts 34-43).
OnboardInit ==
    /\ Extracted
    /\ \E flags \in AllAnswers :
          /\ onboarding = flags
          /\ pcMain = AskFrom(flags, 1)
    /\ disk = ExtractedDisk
    /\ calls = <<>>
    /\ spawned = <<>>
    /\ published = {}

\* The synchronous chain of New.run from line 153 to its return.
Chain ==
    \/ CheckBusy \/ ReadSuccess
    \/ Install \/ Publish \/ Modify \/ GenerateKey \/ SetPackageName
    \/ CommentOutClientUrl \/ SetSession \/ SetDatabase \/ Cache \/ Git \/ Ready

OnboardNext ==
    \/ TypeAnswer \/ DatabaseAnswer \/ StackAnswer \/ ScaffoldingAnswer \/ ManagerAnswer
    \/ Chain

OnboardSpec == OnboardInit /\ [][OnboardNext]_vars

\* Synchronous code runs on to its end; the user need not answer a prompt.
OnboardFairSpec == OnboardSpec /\ WF_vars(Chain)

----------------------------------------------------------------------------
(* Claims about the scaffold state and the wait of New.run *)

FailureMessage == "Scaffolding failed. It could be your network connection."

InPipeline == pcMain = "install" \/ calls # <<>>

\* Every entry of the archive has gone through the forEach.
Enumerated == pcCont \in {"enumerated", "finished"} /\ idx = Len(Archive) + 1

\* C1: once make() has been called and the download resolved true, busy is
\* not false before the archive has been opened and all its entries
\* enumerated.
C1_BusyUntilEnumerated ==
    ~(pcMain # "start" /\ response = "true" /\ ~busy /\ ~Enumerated)

\* C2: New.run reads success (new.ts 157) only while busy is false.
C2_ReadOnlyWhenIdle == pcMain = "read" => ~busy

C2_Witness == pcMain = "read" /\ pcCont = "opening" /\ ~success

\* C3: busy changes exactly twice: it rises once, inside make() and before
\* the download is in flight, falls once, in the download continuation,
\* never rises again, and does not stay true forever.
C3_BusyTwice ==
    /\ [](pcMain = "start" => ~busy)
    /\ [](pcCont = "downloading" => busy)
    /\ [][(busy' # busy) =>
            \/ (~busy /\ busy' /\ pcMain = "start" /\ pcCont' = "downloading")
            \/ (busy /\ ~busy' /\ pcCont = "downloading" /\ pcCont' # "downloading")]_vars
    /\ [][(pcMain # "start") => (pcMain' # "start")]_vars
    /\ [][(pcMain # "start" /\ ~busy) => ~busy']_vars
    /\ (busy ~> ~busy)

C3_Witness == pcMain # "start" /\ ~busy /\ response = "true" /\ pcCont = "finished"

\* C4: once the continuation has finished, success is true exactly when the
\* download resolved true and no extracted file failed to be written.
C4_SuccessIffAllWritten ==
    pcCont = "finished" =>
        (success <=> (response = "true" /\ \A p \in DOMAIN wstatus : wstatus[p] # "error"))

\* C5: when install() is invoked, and in every later step, busy is false,
\* success is true and every archive entry has been enumerated.
C5_StepsAfterExtraction ==
    InPipeline => (~busy /\ success /\ Enumerated /\ pcCont = "finished")

C5_Witness == pcMain = "install" /\ \E p \in DOMAIN wstatus : wstatus[p] = "inflight"

RECURSIVE IsPrefix(_, _)
IsPrefix(a, b) ==
    \/ a = <<>>
    \/ b # <<>> /\ Head(a) = Head(b) /\ IsPrefix(Tail(a), Tail(b))

\* C6: the steps are invoked at most once each and in the order install,
\* publish, modify, generateKey, setPackageName, commentOutClientUrl,
\* setSession, setDatabase, cache, then git when the flag is set; a step is
\* entered only when all the steps before it have been invoked.
C6_FixedOrder ==
    /\ IsPrefix(calls, StepOrder \o <<"git">>)
    /\ (Len(calls) = Len(StepOrder) + 1 => git)
    /\ \A k \in 1..Len(StepOrder) : pcMain = StepOrder[k] => Len(calls) = k - 1
    /\ (pcMain = "git" => calls = StepOrder /\ git)
    /\ (pcMain \in {"ready", "done"} =>
            calls = StepOrder \o (IF git THEN <<"git">> ELSE <<>>))

C6_Witness == pcMain = "done" /\ git /\ calls = StepOrder \o <<"git">>

\* C7: when the download resolves to anything but true, success stays
\* false, nothing is extracted, no step is invoked, and the run ends with
\* the failure message and exit status 1.
C7_Safety ==
    response \in Responses \ {"true"} =>
        /\ ~success
        /\ dirs = {} /\ \A p \in DOMAIN wstatus : wstatus[p] = "none"
        /\ \A p \in DOMAIN disk : disk[p] = Absent
        /\ ~InPipeline /\ calls = <<>> /\ spawned = <<>> /\ published = {}
        /\ pcMain \notin {"done", "threw"}
        /\ (pcMain = "exited" => FailureMessage \in messages)

C7_FailedDownload ==
    /\ []C7_Safety
    /\ (response \in Responses \ {"true"} /\ pcMain \in {"check", "waiting", "read"})
          ~> (pcMain = "exited")

C7_Witness == response = "undefined" /\ pcMain = "exited" /\ FailureMessage \in messages

\* C9: under fair scheduling of the continuation and of the poll, the wait
\* on busy ends: New.run goes on to exit with the failure or to install.
C9_WaitEnds == (pcMain = "waiting") ~> (pcMain \in {"exited", "install"})

C9_Witness == pcMain = "waiting" /\ busy /\ pcCont = "downloading"

\* C18: when the download has resolved true, New.run does not report the
\* scaffolding failure and does not exit with status 1.
C18_NoFailureAfterDownload ==
    response = "true" => (pcMain # "exited" /\ FailureMessage \notin messages)

\* C19: when install starts, and in every later step, every file the
\* extractor issued a write for is completely written.
C19_WritesCompleteAtInstall ==
    InPipeline => \A p \in DOMAIN wstatus : wstatus[p] \in {"none", "done"}

----------------------------------------------------------------------------
(* Claims about the steps *)

\* The four rules of the dependency resolver, each on its own.
RulePrettyErrors(o) ==
    IF o.type = "full-stack" THEN <<"@formidablejs/pretty-errors">> ELSE <<>>
RuleView(o) ==
    IF o.type = "full-stack" /\ o.stack = "imba" /\ o.scaffolding = "spa"
    THEN <<"@formidablejs/view", "axios">> ELSE <<>>
RuleInertia(o) ==
    IF o.type = "full-stack" /\ o.stack \in {"react", "vue"}
    THEN <<"@formidablejs/inertia">> ELSE <<>>
RuleDatabase(o) ==
    IF o.database \notin {null, "skip"} THEN <<o.database>> ELSE <<>>

ExpectedDependencies(o) ==
    RulePrettyErrors(o) \o RuleView(o) \o RuleInertia(o) \o RuleDatabase(o)

\* The packages on the command line of the package manager install spawned.
InstalledPackages == SubSeq(spawned[1].args, 2, Len(spawned[1].args) - 1)

\* C8: for every record of answers, getDependencies returns the
\* concatenation of the four rules in their order, and nothing exactly when
\* the type is not full-stack and the database is unset or skip; install
\* hands that list to the package manager.
C8_Dependencies ==
    /\ GetDependencies(onboarding) = ExpectedDependencies(onboarding)
    /\ (GetDependencies(onboarding) = <<>>) <=>
          (onboarding.type # "full-stack" /\ onboarding.database \in {null, "skip"})
    /\ (pcMain = "publish" => InstalledPackages = ExpectedDependencies(onboarding))

C8_Witness ==
    /\ pcMain = "publish"
    /\ InstalledPackages = <<"@formidablejs/pretty-errors", "@formidablejs/inertia", "pg">>
    /\ onboarding.scaffolding = "spa"

\* The connection names of the drivers.
ConnectionTable ==
    [mysql |-> "mysql", pg |-> "pgsql", sqlite3 |-> "sqlite",
     tedious |-> "mssql", oracledb |-> "oracle"]

Matches(line) == Len(line) >= 1 /\ line[1] = "DB_CONNECTION"

\* setDatabase has just run with a database other than skip.
SetDatabaseRan ==
    pcMain = "setDatabase" /\ pcMain' = "cache" /\ onboarding.database # "skip"

\* C10, as amended: setDatabase rewrites every line of .env that starts
\* with DB_CONNECTION to DB_CONNECTION=<connection>, the connection taken
\* from the table, and leaves every other line, the number of lines and
\* their order as they were.
C10_EveryMatchingLine ==
    [][SetDatabaseRan =>
        LET old == disk[EnvPath]
            new == disk'[EnvPath]
            line == <<"DB_CONNECTION", "=", ConnectionTable[onboarding.database]>>
        IN /\ Len(new) = Len(old)
           /\ \A i \in 1..Len(old) :
                 new[i] = IF Matches(old[i]) THEN line ELSE old[i]]_vars

\* C10, as claimed: only the first line that starts with DB_CONNECTION is
\* rewritten.
C10_FirstMatchingLine ==
    [][SetDatabaseRan =>
        LET old == disk[EnvPath]
            new == disk'[EnvPath]
            line == <<"DB_CONNECTION", "=", ConnectionTable[onboarding.database]>>
            first(i) == Matches(old[i]) /\ \A j \in 1..(i - 1) : ~Matches(old[j])
        IN /\ Len(new) = Len(old)
           /\ \A i \in 1..Len(old) :
                 new[i] = IF first(i) THEN line ELSE old[i]]_vars

C10_Witness ==
    /\ pcMain = "cache"
    /\ onboarding.database = "pg"
    /\ disk[EnvPath] = << <<"DB_CONNECTION", "=", "pgsql">>, <<"DB_CONNECTION", "=", "pgsql">> >>

\* commentOutClientUrl has just run on a full-stack project.
CommentOutClientUrlRan ==
    /\ pcMain = "commentOutClientUrl" /\ pcMain' = "setSession"
    /\ onboarding.type = "full-stack"

\* The line is the one-token text with nothing but whitespace around it.
Padded(line, text) ==
    \E k \in 1..Len(line) :
        /\ line[k] = text
        /\ \A j \in (1..Len(line)) \ {k} : line[j] \in Whitespace

\* C11, as amended: on a full-stack project commentOutClientUrl replaces
\* by # CLIENT_URL=http://localhost:8000 every line that is
\* CLIENT_URL=http://localhost:8000 with nothing but whitespace before and
\* after it, and leaves every other line as it was.
C11_MatchUpToWhitespace ==
    [][CommentOutClientUrlRan =>
        LET old == disk[EnvPath]
            new == disk'[EnvPath]
        IN /\ Len(new) = Len(old)
           /\ \A i \in 1..Len(old) :
                 new[i] = IF Padded(old[i], "CLIENT_URL=http://localhost:8000")
                          THEN <<"#", " ", "CLIENT_URL=http://localhost:8000">>
                          ELSE old[i]]_vars

\* C11, as claimed: only a line exactly equal to the literal is rewritten;
\* a line with added leading or trailing whitespace is left unchanged.
C11_ExactMatchOnly ==
    [][CommentOutClientUrlRan =>
        LET old == disk[EnvPath]
            new == disk'[EnvPath]
        IN /\ Len(new) = Len(old)
           /\ \A i \in 1..Len(old) :
                 new[i] = IF old[i] = <<"CLIENT_URL=http://localhost:8000">>
                          THEN <<"#", " ", "CLIENT_URL=http://localhost:8000">>
                          ELSE old[i]]_vars

C11_Witness ==
    /\ pcMain = "setSession"
    /\ onboarding.type = "full-stack"
    /\ disk[EnvPath] = << ClientUrlCommented, <<"DB_CONNECTION", "_POOL=5">> >>

\* The transforms the steps hand to updateLine.
Transforms ==
    { [name |-> n, connection |-> ""] :
        n \in {"commentClientUrl", "sessionDriver", "sessionSameSite", "useNullAsDefault"} }
    \cup { [name |-> "dbConnection", connection |-> Connection(d)] : d \in Drivers }

ConfigPaths == {EnvPath, SessionPath, DatabasePath}

\* setSession has just run on a full-stack project.
SetSessionRan ==
    /\ pcMain = "setSession" /\ pcMain' = "setDatabase"
    /\ onboarding.type = "full-stack"

\* Every transform, applied twice to a configuration file, gives what it
\* gives applied once; and the file a step has just written is left as it
\* is by the transforms of that step.
C12_TwiceIsOnce ==
    /\ \A p \in ConfigPaths : \A f \in Transforms :
          disk[p] # Absent =>
             UpdateLine(UpdateLine(disk[p], f), f) = UpdateLine(disk[p], f)
    /\ (pcMain = "setSession" /\ onboarding.type = "full-stack") =>
          UpdateLine(disk[EnvPath], [name |-> "commentClientUrl"]) = disk[EnvPath]
    /\ (pcMain = "setDatabase" /\ onboarding.type = "full-stack") =>
          UpdateLine(UpdateLine(disk[SessionPath], [name |-> "sessionDriver"]),
                     [name |-> "sessionSameSite"]) = disk[SessionPath]
    /\ (pcMain = "cache" /\ onboarding.database # "skip") =>
          /\ SetDatabaseEnv(onboarding.database, disk[EnvPath]) = disk[EnvPath]
          /\ (onboarding.database = "sqlite3" =>
                UpdateLine(disk[DatabasePath], [name |-> "useNullAsDefault"])
                   = disk[DatabasePath])

\* No line of the file is the text with nothing but whitespace around it.
NoLine(content, text) == \A i \in 1..Len(content) : ~Padded(content[i], text)

\* C12: each line transform is idempotent on file content: a step applied
\* to its own result changes nothing, any transform applied twice gives
\* what it gives once, and a step that finds no matching line leaves the
\* file as it was.
C12_Idempotent ==
    /\ []C12_TwiceIsOnce
    /\ [][(CommentOutClientUrlRan
              /\ NoLine(disk[EnvPath], "CLIENT_URL=http://localhost:8000"))
            => disk' = disk]_vars
    /\ [][(SetSessionRan
              /\ NoLine(disk[SessionPath], "driver: 'memory'")
              /\ NoLine(disk[SessionPath], "same_site: helpers.env 'SESSION_SAME_SITE', 'none'"))
            => disk' = disk]_vars
    /\ [][(SetDatabaseRan
              /\ (\A i \in 1..Len(disk[EnvPath]) : ~Matches(disk[EnvPath][i]))
              /\ NoLine(disk[DatabasePath], "useNullAsDefault: null"))
            => disk' = disk]_vars

C12_Witness ==
    /\ pcMain = "cache"
    /\ onboarding.type = "full-stack" /\ onboarding.database = "sqlite3"
    /\ disk[EnvPath] = << <<"APP_NAME=Formidable">>, ClientUrlCommented,
                           <<"DB_CONNECTION", "=", "sqlite">> >>
    /\ disk[SessionPath] = << <<SP, SP, "driver: 'file'">>,
                              <<TAB, "same_site: helpers.env 'SESSION_SAME_SITE', 'lax'">> >>
    /\ disk[DatabasePath] = << <<TAB, "default: helpers.env 'DB_CONNECTION', 'sqlite'">>,
                               <<TAB, "useNullAsDefault: true">> >>

\* The step New.run stands before has just run.
StepRan(step) == pcMain = step /\ pcMain' # step

\* The files other than those of paths are as they were.
OnlyChanged(paths) == \A p \in DOMAIN disk : p \notin paths => disk'[p] = disk[p]

\* C17: the guards leave the files untouched: commentOutClientUrl and
\* setSession change no file unless the type is full-stack, setDatabase
\* changes no file when the database is skip, and config/database.imba is
\* rewritten only when the connection is sqlite; a step changes no file
\* but its own.
C17_GuardsLeaveFiles ==
    /\ [][(StepRan("commentOutClientUrl") /\ onboarding.type # "full-stack")
             => disk' = disk]_vars
    /\ [][(StepRan("setSession") /\ onboarding.type # "full-stack")
             => disk' = disk]_vars
    /\ [][(StepRan("setDatabase") /\ onboarding.database = "skip")
             => disk' = disk]_vars
    /\ [][(StepRan("setDatabase") /\ onboarding.database # "skip"
              /\ ConnectionTable[onboarding.database] # "sqlite")
             => disk'[DatabasePath] = disk[DatabasePath]]_vars
    /\ [][StepRan("commentOutClientUrl") => OnlyChanged({EnvPath})]_vars
    /\ [][StepRan("setSession") => OnlyChanged({SessionPath})]_vars
    /\ [][StepRan("setDatabase") => OnlyChanged({EnvPath, DatabasePath})]_vars

C17_Witness ==
    /\ pcMain = "cache"
    /\ onboarding.type = "api" /\ onboarding.database = "skip"
    /\ disk[EnvPath] = EnvExampleContent
    /\ disk[SessionPath] = << <<TAB, "driver: 'memory'">>, <<"driver: 'memory'">> >>
    /\ disk[DatabasePath] = DatabaseContent

----------------------------------------------------------------------------
(* Claims about the extraction *)

\* One iteration of the forEach has just run, on Archive[idx].
ExtractEntryRan == pcCont = "extracting" /\ idx' = idx + 1

\* Nothing is written as a file at the output directory itself.
NoFileAtRoot ==
    /\ (<<>> \in DOMAIN wstatus => wstatus[<<>>] = "none")
    /\ (<<>> \in DOMAIN disk => disk[<<>>] = Absent)

IsLockFile(path) == path # <<>> /\ path[Len(path)] = "package-lock.json"

\* The entries the forEach has gone through.
Visited == { i \in 1..Len(Archive) : i < idx }

\* No lock file has a write issued or a byte on disk; every other file
\* entry gone through has its write issued; every directory entry gone
\* through exists with all its ancestors.
C14_Extracted ==
    /\ \A p \in DOMAIN wstatus :
          IsLockFile(p) => (wstatus[p] = "none" /\ disk[p] = Absent)
    /\ \A i \in Visited :
          LET dest == SubSeq(Archive[i].path, 2, Len(Archive[i].path))
          IN /\ (Archive[i].type = "File" /\ ~IsLockFile(Archive[i].path))
                   => wstatus[dest] # "none"
             /\ Archive[i].type = "Directory"
                   => \A k \in 0..Len(dest) : SubSeq(dest, 1, k) \in dirs

\* C14: no file entry whose base name is package-lock.json is written, at
\* any depth; every other file entry has a write issued to its destination;
\* a directory entry is created with all its ancestors, and the directories
\* that exist already stay as they are.
C14_LockFileSkipped ==
    /\ []C14_Extracted
    /\ [][dirs \subseteq dirs']_vars
    /\ [][(ExtractEntryRan /\ Archive[idx].type = "Directory") =>
             (wstatus' = wstatus /\ disk' = disk /\
              dirs' \ dirs \subseteq
                 { SubSeq(Archive[idx].path, 2, k) : k \in 1..Len(Archive[idx].path) })]_vars

C14_Witness ==
    /\ Enumerated
    /\ wstatus[<<"package-lock.json">>] = "none"
    /\ wstatus[<<"config", "package-lock.json">>] = "none"
    /\ wstatus[<<"config", "session.imba">>] = "inflight"
    /\ wstatus[<<"package.json">>] = "done"

----------------------------------------------------------------------------
(* Claims about the command on every combination of flags and answers *)

\* publish has returned.
PublishDone == \E k \in 1..Len(calls) : calls[k] = "publish"

\* The front-end file sets publish has made.
FrontEndSets == published \cap {"WebPublishable", "SPAPublishable", "InertiaPublishable"}

\* C15: once publish has returned, the two mail sets are made; a full-stack
\* project has exactly one of Web only, SPA only, Web with Inertia; any
\* other project has none of the three sets.
C15_PublishSets ==
    PublishDone =>
        /\ {"AuthMailPublishable", "MailPublishable"} \subseteq published
        /\ (onboarding.type = "full-stack" =>
               FrontEndSets \in { {"WebPublishable"}, {"SPAPublishable"},
                                  {"WebPublishable", "InertiaPublishable"} })
        /\ (onboarding.type # "full-stack" => FrontEndSets = {})

C15_Witness ==
    /\ pcMain = "modify"
    /\ onboarding.type = "full-stack" /\ onboarding.stack = "vue"
    /\ onboarding.scaffolding = null
    /\ FrontEndSets = {"WebPublishable", "InertiaPublishable"}

ReadyMessage == "Your application is ready!"

\* Whatever the children did, New.run stands where the chain puts it, has
\* not been thrown out of the chain, and returns with the closing message.
C16_ChainUnbroken ==
    /\ pcMain \notin {"threw", "exited"}
    /\ \A k \in 1..Len(StepOrder) :
          pcMain = StepOrder[k] => calls = SubSeq(StepOrder, 1, k - 1)
    /\ (pcMain = "done" =>
          /\ ReadyMessage \in messages
          /\ calls = StepOrder \o (IF git THEN <<"git">> ELSE <<>>)
          /\ Len(spawned) = (IF git THEN 4 ELSE 3))

\* C16: the exit status of a child process changes nothing of the control
\* flow: after a child has failed, every later step is still invoked in the
\* order of the chain and the run ends with the closing message.
C16_ChildOutcomeIgnored ==
    /\ []C16_ChainUnbroken
    /\ (childFailed ~> (pcMain = "done" /\ ReadyMessage \in messages))
    /\ ((pcMain = "install") ~> (pcMain = "done"))

C16_Witness ==
    /\ pcMain = "done" /\ childFailed /\ git
    /\ Len(spawned) = 4
    /\ ReadyMessage \in messages

\* What the run has done for Inertia: the adapter installed, a hook run, or
\* one of the two modifiers applied.
InertiaUsed ==
    \/ \E k \in 1..Len(spawned) :
          \E j \in 1..Len(spawned[k].args) : spawned[k].args[j] = "@formidablejs/inertia"
    \/ published \cap {"ReactHook", "VueHook", "InertiaResolverModifier",
                       "InertiaConfigModifier"} # {}

\* C20: whenever the run has installed the Inertia adapter, run a hook or
\* applied an Inertia modifier, publish has made the Web and Inertia sets.
C20_InertiaConsistent ==
    (PublishDone /\ InertiaUsed) =>
        {"WebPublishable", "InertiaPublishable"} \subseteq published

====
